---- MODULE Spec2Model ----
(***************************************************************************)
(* A model of pybo's restart-based maximizer (solve_lbfgs) and of the      *)
(* GP meta-policy (GPPolicy) that wires a surrogate model, an acquisition  *)
(* criterion and the maximizer together.                                   *)
(*                                                                         *)
(* Numbers are integers.  A point is a tuple of integer coordinates, a     *)
(* box is a tuple of <<lower, upper>> pairs (one row per dimension, as the  *)
(* rows of the numpy bounds array), and an objective is a function from    *)
(* points to integer values.                                               *)
(***************************************************************************)
EXTENDS Integers, Sequences, FiniteSets, TLC

\* ------------------------------------------------------------------ bounds

\* Coordinates of the search space are 0..MaxCoord.
MaxCoord == 2
\* Objective values are 0..MaxVal.
MaxVal == 2
\* Longest candidate set (supplied xinit, or ninit when sampled).
MaxInit == 2
\* Largest nbest passed to the solver.
MaxBest == 2
\* Seeds of the random number generator are 0..MaxSeed.
MaxSeed == 1

\* Python's None, and a value that is not None.
None == [none |-> TRUE]
Some(v) == [none |-> FALSE, val |-> v]

Coord == 0..MaxCoord
Vals == 0..MaxVal
Seeds == 0..MaxSeed

\* ------------------------------------------------------------ small helpers

Max2(a, b) == IF a >= b THEN a ELSE b
Min2(a, b) == IF a <= b THEN a ELSE b

\* All sequences over S of length at most n.
SeqsUpTo(S, n) == UNION {[1..k -> S] : k \in 0..n}

\* The permutations of 1..n, as sequences.
Perms(n) == {p \in [1..n -> 1..n] : \A i, j \in 1..n : i # j => p[i] # p[j]}

AllPerms == [n \in 0..MaxInit |-> Perms(n)]

\* s[:n] of Python for n >= 0.
Take(s, n) == SubSeq(s, 1, Min2(n, Len(s)))

\* The points of a d-dimensional space.
Points(d) == [1..d -> Coord]

\* lower <= x <= upper in every dimension.
InBox(x, b) == \A i \in 1..Len(b) : b[i][1] <= x[i] /\ x[i] <= b[i][2]

\* ---------------------------------------------------------- ldsample.random

\* ldsample.random(bounds, n, rng): n points of the box, a deterministic
\* function of the generator's seed.  Each coordinate is lower + width * u
\* for a pseudo-random u in [0, 1].
ldsample_random(b, n, seed) ==
    [i \in 1..n |->
        [d \in 1..Len(b) |->
            LET w == b[d][2] - b[d][1]
                k == seed + i * d
            IN  IF w >= 0 THEN b[d][1] + (k % (w + 1))
                          ELSE b[d][1] - (k % (1 - w))]]

\* ------------------------------------------------- scipy fmin_l_bfgs_b

\* The points one step from x along one axis that the box allows.
Neighbours(x, b) ==
    {y \in {[x EXCEPT ![d] = x[d] + s] : d \in 1..Len(x), s \in {-1, 1}} :
        InBox(y, b)}

\* The projection of x onto the box: L-BFGS-B starts from the feasible point
\* nearest to x0.
Project(x, b) == [d \in 1..Len(x) |-> Max2(b[d][1], Min2(x[d], b[d][2]))]

\* Descent of the objective obj (a function point -> value) inside the box
\* from the feasible point x, to a point none of whose neighbours is lower.
RECURSIVE Descend(_, _, _)
Descend(obj, x, b) ==
    LET down == {y \in Neighbours(x, b) : obj[y] < obj[x]}
    IN  IF down = {} THEN x
        ELSE Descend(obj, CHOOSE y \in down : \A z \in down : obj[y] <= obj[z], b)

\* fmin_l_bfgs_b(objective, x0, bounds)[:2]: the minimizer found inside the
\* box and the objective's value there.
fmin_unbounded(obj, x0, b) ==
    LET x == Descend(obj, x0, [d \in 1..Len(x0) |-> <<0, MaxCoord>>])
    IN  <<x, obj[x]>>
fmin_l_bfgs_b(obj, x0, b) ==
    LET x == Descend(obj, Project(x0, b), b)
    IN  <<x, obj[x]>>

\* ------------------------------------------------------------------- state

VARIABLES
    \* solve_lbfgs: the arguments of the call and its local variables
    args,        \* f, bounds, nbest, ninit, xinit, rng as passed
    xinit,       \* the candidate set (line 49: sampled when not passed)
    finit,       \* f on the candidate set
    idx_sorted,  \* the candidates' indices by descending value
    result,      \* one (x, f) pair per restart, of the negated objective
    ret,         \* how the call ended
    work,        \* what the call has run so far
    pc,          \* where the call is
    \* GPPolicy
    cargs,       \* the constructor's arguments
    made,        \* how the constructor ended and what it built on the way
    self,        \* the policy object: _bounds, _solver, _policy, _model
    data,        \* self._model.data: the observations, oldest first
    observed,    \* history: the (x, y) pairs passed to add_data, in call order
    last,        \* the last method called and how it ended
    proposals    \* how the get_next calls since the last add_data ended

solverVars == <<args, xinit, finit, idx_sorted, result, ret, work, pc>>
policyVars == <<cargs, made, self, data, observed, last, proposals>>

vars == <<args, xinit, finit, idx_sorted, result, ret, work, pc,
          cargs, made, self, data, observed, last, proposals>>

\* ---------------------------------------------------------------- solve_lbfgs

\* The objective handed to fmin_l_bfgs_b: f negated, so that minimizing it
\* maximizes f.
objective(f) == [x \in DOMAIN f |-> 0 - f[x]]

\* np.argsort(finit)[::-1]: the orders of the candidates' indices in which
\* values never increase.  Which of two equal values comes first is the sort
\* algorithm's choice.
argsort_desc(fs) ==
    {p \in AllPerms[Len(fs)] :
        \A i, j \in 1..Len(fs) : i < j => fs[p[i]] >= fs[p[j]]}

\* xinit[idx_sorted[:nbest]]: the seeds of the restarts, best first.
seeds_one_more(xs, idx, n) == [i \in 1..Len(Take(idx, n + 1)) |-> xs[idx[i]]]
seeds(xs, idx, n) == [i \in 1..Len(Take(idx, n)) |-> xs[idx[i]]]

\* np.argmin(_[1] for _ in result): the argument is a generator object, not a
\* list; numpy wraps it as a single 0-d object and the index of its minimum
\* is 0, whatever the results are.
np_argmin_generator(res) == 0

\* Lines 63-70: one local descent per seed, the selection and the return.
restarts(f, b, sds) ==
    [i \in 1..Len(sds) |-> fmin_l_bfgs_b(objective(f), sds[i], b)]

select(res) ==
    LET k == np_argmin_generator(res) + 1
    IN  IF k > Len(res)
        THEN [status |-> "IndexError"]
        ELSE [status |-> "ok", xmin |-> res[k][1], fmax |-> 0 - res[k][2]]

\* The whole call as a function of its inputs, the seed the sampler draws
\* and the order the sort gives: the value returned or the error raised.
solve_lbfgs(f, b, n, xs, idx) == select(restarts(f, b, seeds(xs, idx, n)))

\* A one-dimensional search space on which the solver is exercised.
Line == Points(1)
Domains == {b \in {<< <<lo, hi>> >> : lo \in Coord, hi \in Coord} :
               b[1][1] <= b[1][2]}
Objectives == [Line -> Vals]

\* Candidate sets passed as xinit.  The ranking reads the candidates' values
\* only, so each set is listed once, in nondecreasing order.
Candidates ==
    {q \in SeqsUpTo(Line, MaxInit) :
        \A i, j \in 1..Len(q) : i < j => q[i][1] <= q[j][1]}

SolverCalls ==
    [f : Objectives, bounds : Domains, nbest : 0..MaxBest,
     ninit : {MaxInit}, xinit : {Some(q) : q \in Candidates},
     rng : {None}]
    \cup
    [f : Objectives, bounds : Domains, nbest : 0..MaxBest,
     ninit : 0..MaxInit, xinit : {None},
     rng : {None} \cup {Some(s) : s \in Seeds}]

NoWork == [sampled |-> FALSE, batch |-> 0, points |-> 0, ascents |-> 0]

IdlePolicy ==
    /\ cargs = None
    /\ made = None
    /\ self = None
    /\ data = <<>>
    /\ observed = <<>>
    /\ last = None
    /\ proposals = <<>>

InitSolver ==
    /\ IdlePolicy
    /\ pc = "idle"
    /\ args \in SolverCalls
    /\ xinit = <<>>
    /\ finit = <<>>
    /\ idx_sorted = <<>>
    /\ result = <<>>
    /\ ret = None
    /\ work = NoWork

\* Lines 46-53: the candidate set, the batch evaluation and the ranking.
SolveRank(a) ==
    /\ pc = "idle"
    /\ \E seed \in (IF a.rng.none THEN Seeds ELSE {a.rng.val}) :
          LET xs == IF a.xinit.none
                    THEN ldsample_random(a.bounds, a.ninit, seed)
                    ELSE a.xinit.val
              fs == [i \in 1..Len(xs) |-> a.f[xs[i]]]
          IN  /\ xinit' = xs
              /\ finit' = fs
              /\ idx_sorted' \in argsort_desc(fs)
              /\ work' = [sampled |-> a.xinit.none, batch |-> 1,
                          points |-> Len(xs), ascents |-> 0]
    /\ pc' = "ranked"
    /\ UNCHANGED <<args, result, ret>>
    /\ UNCHANGED policyVars

\* Lines 58-70: the restarts, the selection and the return.
SolveRestarts ==
    /\ pc = "ranked"
    /\ LET sds == seeds(xinit, idx_sorted, args.nbest)
           res == restarts(args.f, args.bounds, sds)
       IN  /\ result' = res
           /\ ret' = select(res)
           /\ work' = [work EXCEPT !.ascents = Len(sds)]
    /\ pc' = "done"
    /\ UNCHANGED <<args, xinit, finit, idx_sorted>>
    /\ UNCHANGED policyVars

NextSolver ==
    \/ SolveRank(args)
    \/ SolveRestarts

SpecSolver == InitSolver /\ [][NextSolver]_vars

\* ------------------------------------------------------------- _make_dict

\* A name is the sequence of its characters.
lower(c) ==
    CASE c = "B" -> "b" [] c = "C" -> "c" [] c = "E" -> "e" [] c = "I" -> "i"
      [] c = "M" -> "m" [] c = "P" -> "p" [] c = "S" -> "s" [] c = "U" -> "u"
      [] OTHER -> c
str_lower(n) == [i \in 1..Len(n) |-> lower(n[i])]
startswith(n, pre) == Len(pre) <= Len(n) /\ SubSeq(n, 1, Len(pre)) = pre
endswith(n, suf) ==
    Len(suf) <= Len(n) /\ SubSeq(n, Len(n) - Len(suf) + 1, Len(n)) = suf
reversed(n) == [i \in 1..Len(n) |-> n[Len(n) + 1 - i]]
\* n[k:]
from(n, k) == SubSeq(n, k + 1, Len(n))

\* The key under which _make_dict files the export fname.
dict_key(fname, lstrip, rstrip) ==
    LET a == IF startswith(fname, lstrip) THEN from(fname, Len(lstrip))
                                          ELSE fname
        b == IF endswith(a, rstrip)
             THEN reversed(from(reversed(a), Len(rstrip)))
             ELSE a
    IN  str_lower(b)

\* _make_dict(module, lstrip, rstrip): key -> exported function (named by
\* its export name); of two exports with one key the later stays.
make_dict(all, lstrip, rstrip) ==
    LET key(i) == dict_key(all[i], lstrip, rstrip)
    IN  [k \in {key(i) : i \in 1..Len(all)} |->
            all[CHOOSE i \in 1..Len(all) :
                   /\ key(i) = k
                   /\ \A j \in 1..Len(all) : key(j) = k => j <= i]]

\* The export lists (__all__) of the three modules: pybo.globalopt,
\* pybo.policies.acquisitions and pygp.meta.
solvers_all == << <<"s","o","l","v","e","_","l","b","f","g","s">> >>
acquisitions_all == << <<"E","I">>, <<"P","I">>, <<"U","C","B">> >>
pygp_meta_all == << <<"M","C","M","C">>, <<"S","M","C">> >>

MODELS == make_dict(pygp_meta_all, <<>>, <<>>)
SOLVERS == make_dict(solvers_all, <<"s","o","l","v","e","_">>, <<>>)
POLICIES == make_dict(acquisitions_all, <<>>, <<>>)

\* ----------------------------------------------------------- pybo.globalopt

\* The maximizer the policy resolves from pybo.globalopt, by its contract
\* maximize(f, domain, num_restarts=10, num_init_samples, init_points):
\* rank the candidates by descending value, run a bound-constrained ascent
\* from the top num_restarts, return the highest result, the first found
\* among equals.
num_restarts_default == 10

\* No point has lower <= x <= upper in every dimension.
EmptyBox(b) == \E d \in 1..Len(b) : b[d][1] > b[d][2]

negated(f) == [x \in DOMAIN f |-> 0 - f[x]]

\* The place of candidate i in the ranking: higher values first, earlier
\* candidates first among equal values.
rank(fs, i) ==
    Cardinality({j \in 1..Len(fs) :
                    fs[j] > fs[i] \/ (fs[j] = fs[i] /\ j < i)}) + 1

\* The ascent from the seed x0: to a point of the box none of whose
\* neighbours is higher.
ascend(f, x0, b) == Descend(negated(f), Project(x0, b), b)

\* Zero restarts, an empty candidate set and an empty domain are degenerate
\* inputs, refused before anything is evaluated.
maximize(f, b, cands, n) ==
    IF EmptyBox(b) \/ Len(cands) = 0 \/ n = 0
    THEN [status |-> "DegenerateInputError"]
    ELSE LET fs    == [i \in 1..Len(cands) |-> f[cands[i]]]
             run   == {i \in 1..Len(cands) : rank(fs, i) <= n}
             at(i) == ascend(f, cands[i], b)
             best  == CHOOSE i \in run : \A j \in run :
                         \/ f[at(i)] > f[at(j)]
                         \/ f[at(i)] = f[at(j)] /\ rank(fs, i) <= rank(fs, j)
         IN  [status |-> "ok", xmin |-> at(best), fmax |-> f[at(best)]]

\* globalopt.solve_lbfgs(f, bounds, xx=..., maximize=...): every way the
\* call can end.  xx is the candidate set; without it the maximizer draws a
\* fresh one from the sampler on each call.  maximize=False minimizes f.
\* The outcome of a call that ran records the candidate set it ran on.
globalopt_solve_lbfgs(f, b, kw) ==
    LET g       == IF kw.maximize THEN f ELSE negated(f)
        given   == "xx" \in DOMAIN kw
        sets    == IF given THEN {kw.xx}
                   ELSE {ldsample_random(b, MaxInit, s) : s \in Seeds}
        back(v) == IF kw.maximize THEN v ELSE 0 - v
        out(c)  == LET r == maximize(g, b, c, num_restarts_default)
                   IN  IF r.status = "ok"
                       THEN [status |-> "ok", xmin |-> r.xmin,
                             fmax |-> back(r.fmax),
                             candidates |-> c, sampled |-> ~given]
                       ELSE [status |-> r.status, sampled |-> ~given]
    IN  {out(c) : c \in sets}

\* ----------------------------------------------------------------- GPPolicy

\* Longest sequence of observations.
MaxObs == 2
\* Largest number of dimensions of a policy's domain.
MaxDim == 2

\* np.array(bounds, dtype=float, ndmin=2): a flat (lower, upper) pair
\* becomes the single row of a 2-d array.
as_2d_ordered(b) ==
    LET row(l, u) == <<Min2(l, u), Max2(l, u)>>
    IN  IF b.ndim = 1 THEN <<row(b.lower, b.upper)>>
        ELSE [d \in 1..Len(b.rows) |-> row(b.rows[d][1], b.rows[d][2])]
as_2d(b) == IF b.ndim = 1 THEN << <<b.lower, b.upper>> >> ELSE b.rows

\* `inference is 'fixed'`: the identity of two string objects.  A string
\* equal to 'fixed' that was built at run time is another object.
is_fixed(inf) == inf.name = <<"f","i","x","e","d">> /\ inf.interned

\* The default prior of lines 77-80; the upper bound of ell is 2 * ell.
default_prior(ell) ==
    [kind |-> "default", ell_hi |-> [d \in 1..Len(ell) |-> 2 * ell[d]]]

\* Number of samples of a Monte Carlo model (line 98).
n_samples == 10

\* The prior after lines 67-84: a kernel given by name gets the default
\* prior when none was passed; a kernel object keeps what was passed.
prior_no_default(a, ell) == a.prior
effective_prior(a, ell) ==
    IF a.kernel = "name" /\ a.prior.none THEN Some(default_prior(ell))
                                          ELSE a.prior

\* registry[key]: the entry, or None where Python raises KeyError.
lookup_or_name(registry, key) ==
    IF key \in DOMAIN registry THEN Some(registry[key]) ELSE Some(key)
lookup(registry, key) ==
    IF key \in DOMAIN registry THEN Some(registry[key]) ELSE None

\* What pygp can do with the length scales ell of line 71 when it builds the
\* BasicGP (line 72) and the default prior Uniform(0.01, 2 * ell) (line 80):
\* positive ones it accepts; whether either raises on others is pygp's
\* choice.
pygp_outcomes(a) ==
    LET bounds == as_2d(a.bounds)
    IN  IF a.kernel = "name" /\ \E d \in 1..Len(bounds) :
                                   bounds[d][2] - bounds[d][1] <= 0
        THEN {"accepts", "BasicGP raises"} \cup
             (IF a.prior.none THEN {"Uniform raises"} ELSE {})
        ELSE {"accepts"}

\* __init__: how it ends (status), what it had built by then, and the object.
\* ell is in tenths: (upper - lower) / 10.
GPPolicy_init(a, pygp) ==
    LET bounds == as_2d(a.bounds)
        ell    == [d \in 1..Len(bounds) |-> bounds[d][2] - bounds[d][1]]
        gp     == IF a.kernel = "name" THEN [type |-> "BasicGP", ell |-> ell]
                                       ELSE [type |-> "ExactGP"]
        prior  == effective_prior(a, ell)
        fixed  == is_fixed(a.inference)
        solver == lookup(SOLVERS, a.solver)
        policy == lookup(POLICIES, a.policy)
        meta   == lookup(MODELS, a.inference.name)
        raise(e, built) == [status |-> e, built |-> built, self |-> None]
    IN  IF pygp = "BasicGP raises"
            THEN raise("pygp error", <<>>)
        ELSE IF pygp = "Uniform raises"
            THEN raise("pygp error", <<"gp">>)
        ELSE IF ~fixed /\ prior.none
            THEN raise("Exception", <<"gp">>)
        ELSE IF solver.none
            THEN raise("KeyError", <<"gp">>)
        ELSE IF policy.none
            THEN raise("KeyError", <<"gp", "solver">>)
        ELSE IF ~fixed /\ meta.none
            THEN raise("KeyError", <<"gp", "solver", "policy">>)
        ELSE [status |-> "ok",
              built |-> <<"gp", "solver", "policy", "model">>,
              self |-> [none |-> FALSE,
                        bounds |-> bounds,
                        solver |-> solver.val,
                        policy |-> policy.val,
                        model |-> IF fixed THEN gp
                                  ELSE [type |-> meta.val,
                                        gp |-> gp, prior |-> prior.val,
                                        n |-> n_samples]]]

\* self._model.add_data(x, y): the observation joins the data, last.
add_data_first(d, x, y) == <<(<<x, y>>)>> \o d
add_data(d, x, y) == Append(d, <<x, y>>)

\* get_init: the centre of the box, lo + 0.5 * wd, as a batch of one point.
\* Its coordinates are in halves.
get_init(b) == << [d \in 1..Len(b) |-> 2 * b[d][1] + (b[d][2] - b[d][1])] >>

\* The acquisition index self._policy(self._model): a function of the
\* points, built from the model's data.  It is highest away from the data.
acquisition_index(b, d) ==
    [x \in Points(Len(b)) |->
        IF \E i \in 1..Len(d) : d[i][1] = x THEN 0 ELSE 1]

\* The posterior mean self._model.posterior(X)[0]: the largest value
\* observed at the point, 0 where nothing was observed.
posterior_mean(b, d) ==
    [x \in Points(Len(b)) |->
        LET ys == {d[i][2] : i \in {j \in 1..Len(d) : d[j][1] = x}}
        IN  IF ys = {} THEN 0 ELSE CHOOSE y \in ys : \A z \in ys : y >= z]

\* get_next: self._solver(index, self._bounds, maximize=True), where
\* self._solver is the entry of SOLVERS the constructor resolved.
get_next_minimize(slf, d) ==
    globalopt_solve_lbfgs(acquisition_index(slf.bounds, d), slf.bounds,
                          [maximize |-> FALSE])
get_next(slf, d) ==
    globalopt_solve_lbfgs(acquisition_index(slf.bounds, d), slf.bounds,
                          [maximize |-> TRUE])

\* Xtest, _ = self._model.data: the observed points.
Xtest(d) == [i \in 1..Len(d) |-> d[i][1]]

\* The keywords get_best passes.
get_best_keywords(d) == [xx |-> Xtest(d), maximize |-> TRUE]

\* get_best: globalopt.solve_lbfgs(objective, self._bounds, xx=Xtest,
\* maximize=True), objective being the posterior mean.
get_best_fresh_grid(slf, d) ==
    globalopt_solve_lbfgs(posterior_mean(slf.bounds, d), slf.bounds,
                          [maximize |-> TRUE])
get_best(slf, d) ==
    globalopt_solve_lbfgs(posterior_mean(slf.bounds, d), slf.bounds,
                          get_best_keywords(d))

\* The pairs one row of the bounds is drawn from: lower < upper,
\* lower = upper and lower > upper.
BoundRows == {<<0, MaxCoord>>, <<1, 1>>, <<MaxCoord, 0>>}
BoundsArgs ==
    {[ndim |-> 1, lower |-> r[1], upper |-> r[2]] : r \in BoundRows} \cup
    {[ndim |-> 2, rows |-> v] :
        v \in UNION {[1..k -> BoundRows] : k \in 1..MaxDim}}

Inferences ==
    {[name |-> <<"f","i","x","e","d">>, interned |-> TRUE],
     [name |-> <<"f","i","x","e","d">>, interned |-> FALSE],
     [name |-> <<"m","c","m","c">>, interned |-> TRUE],
     [name |-> <<"M","C","M","C">>, interned |-> TRUE]}

PolicyArgs ==
    [bounds : BoundsArgs,
     kernel : {"name", "object"},
     solver : {<<"l","b","f","g","s">>,
               <<"s","o","l","v","e","_","l","b","f","g","s">>},
     policy : {<<"e","i">>, <<"E","I">>},
     inference : Inferences,
     prior : {None, Some([kind |-> "user"])}]

IdleSolver ==
    /\ pc = "idle"
    /\ args = None
    /\ xinit = <<>>
    /\ finit = <<>>
    /\ idx_sorted = <<>>
    /\ result = <<>>
    /\ ret = None
    /\ work = NoWork

Init ==
    /\ IdleSolver
    /\ cargs \in PolicyArgs
    /\ made = None
    /\ self = None
    /\ data = <<>>
    /\ observed = <<>>
    /\ last = None
    /\ proposals = <<>>

\* GPPolicy(bounds, noise, kernel, solver, policy, inference, prior)
Construct ==
    /\ made.none
    /\ \E pygp \in pygp_outcomes(cargs) :
          LET r == GPPolicy_init(cargs, pygp)
          IN  /\ made' = [none |-> FALSE, status |-> r.status,
                          built |-> r.built]
              /\ self' = r.self
    /\ UNCHANGED <<cargs, data, observed, last, proposals>>
    /\ UNCHANGED solverVars

\* The observations passed to add_data: at the two corners of the box, with
\* the lowest and the highest value.
Corners(b) == {[d \in 1..Len(b) |-> b[d][1]], [d \in 1..Len(b) |-> b[d][2]]}
ObsPoints == IF self.none THEN {} ELSE Corners(self.bounds)
ObsValues == {0, MaxVal}

AddData(x, y) ==
    /\ ~self.none
    /\ Len(data) < MaxObs
    /\ data' = add_data(data, x, y)
    /\ observed' = Append(observed, <<x, y>>)
    /\ last' = [none |-> FALSE, op |-> "add_data", status |-> "ok"]
    /\ proposals' = <<>>
    /\ UNCHANGED <<cargs, made, self>>
    /\ UNCHANGED solverVars

GetInit ==
    /\ ~self.none
    /\ last' = [none |-> FALSE, op |-> "get_init", status |-> "ok",
                value |-> get_init(self.bounds)]
    /\ UNCHANGED <<cargs, made, self, data, observed, proposals>>
    /\ UNCHANGED solverVars

\* The last two outcomes of get_next.
Latest(ps) == IF Len(ps) > 2 THEN SubSeq(ps, Len(ps) - 1, Len(ps)) ELSE ps

GetNext ==
    /\ ~self.none
    /\ \E r \in get_next(self, data) :
          /\ last' = [none |-> FALSE, op |-> "get_next", ret |-> r,
                      status |-> r.status]
          /\ proposals' = Latest(Append(proposals, r))
    /\ UNCHANGED <<cargs, made, self, data, observed>>
    /\ UNCHANGED solverVars

GetBest ==
    /\ ~self.none
    /\ \E r \in get_best(self, data) :
          last' = [none |-> FALSE, op |-> "get_best", ret |-> r,
                   status |-> r.status]
    /\ UNCHANGED <<cargs, made, self, data, observed, proposals>>
    /\ UNCHANGED solverVars

Next ==
    \/ Construct
    \/ \E x \in ObsPoints, y \in ObsValues : AddData(x, y)
    \/ GetInit
    \/ GetNext
    \/ GetBest

Spec == Init /\ [][Next]_vars

\* ------------------------------------------------------------------ claims

fixed_name == <<"f","i","x","e","d">>
Returned == pc = "done" /\ ret.status = "ok"
Constructed == ~made.none

\* The value restart i reached, and the first restart that reached the
\* highest value.
Reached(i) == 0 - result[i][2]
BestRestart ==
    CHOOSE i \in 1..Len(result) :
        /\ \A j \in 1..Len(result) : Reached(i) >= Reached(j)
        /\ \A j \in 1..(i - 1) : Reached(j) < Reached(i)

\* C1: with nbest >= 1, solve_lbfgs returns the (point, value) pair of the
\* restart whose converged value is the highest of all restarts run, the
\* earliest in rank order among those that reach it.
C1_ReturnsBestRestart ==
    (Returned /\ args.nbest >= 1) =>
        /\ ret.xmin = result[BestRestart][1]
        /\ ret.fmax = Reached(BestRestart)

\* C2: the point solve_lbfgs returns lies inside the box, lower <= x <= upper
\* in every dimension, whether the candidates were sampled or passed as
\* xinit (inside the box or not).
C2_ReturnedPointInBox == Returned => InBox(ret.xmin, args.bounds)

\* A call that returned although the best-ranked candidate lay outside the box.
C2_Witness ==
    /\ Returned
    /\ ~args.xinit.none
    /\ ~InBox(xinit[idx_sorted[1]], args.bounds)

\* C7 as stated: with nbest = 0 or an empty candidate set the call ends in an
\* error, raised before f is evaluated on any point (by the batch evaluation
\* or by a restart).
C7_ErrorBeforeEvaluation ==
    (pc = "done" /\ (args.nbest = 0 \/ Len(xinit) = 0)) =>
        /\ ret.status # "ok"
        /\ work.points = 0
        /\ work.ascents = 0

\* C7 amended: with nbest = 0 or an empty candidate set the call ends in an
\* IndexError, raised when the result is picked from the empty list of
\* restarts: after the one batch evaluation of f on the whole candidate set
\* and before any restart.
C7_ErrorAfterBatchEvaluation ==
    (pc = "done" /\ (args.nbest = 0 \/ Len(xinit) = 0)) =>
        /\ ret.status = "IndexError"
        /\ result = <<>>
        /\ work.batch = 1
        /\ work.points = Len(xinit)
        /\ Len(finit) = Len(xinit)
        /\ work.ascents = 0

\* A call with nbest = 0 that evaluated f on two candidates before the error.
C7_Witness ==
    /\ pc = "done"
    /\ args.nbest = 0
    /\ work.points = 2
    /\ ret.status = "IndexError"

\* x is a point of the box none of whose neighbours in the box has a higher
\* value of f.
LocalMax(f, x, b) ==
    /\ InBox(x, b)
    /\ \A y \in Neighbours(x, b) : f[y] <= f[x]

CalledGetNext == ~last.none /\ last.op = "get_next"
CalledGetBest == ~last.none /\ last.op = "get_best" /\ Len(data) >= 1

\* What C3 asks of a get_next that has been called: it returned, and what it
\* returned is the maximizer's point for the acquisition index over the
\* policy's bounds.
ProposedMaximizer ==
    /\ last.status = "ok"
    /\ LocalMax(acquisition_index(self.bounds, data), last.ret.xmin,
                self.bounds)
    /\ last.ret.fmax = acquisition_index(self.bounds, data)[last.ret.xmin]

\* What C4 asks of a get_best that has been called: it returned, the
\* maximizer ran on the observed points and on no sampled grid, and what it
\* returned is the maximizer's point for the posterior mean.
RecommendedFromData ==
    /\ last.status = "ok"
    /\ ~last.ret.sampled
    /\ last.ret.candidates = Xtest(data)
    /\ LocalMax(posterior_mean(self.bounds, data), last.ret.xmin, self.bounds)

C8_ProposeTwiceSamePoint ==
    (/\ Len(proposals) = 2
     /\ proposals[1].status = "ok"
     /\ proposals[2].status = "ok") =>
        proposals[1].xmin = proposals[2].xmin

\* C5 as stated: a non-'fixed' inference with prior=None ends in an error for
\* a kernel name and for a kernel object alike (no policy is constructed on
\* a default prior), and nothing has been built when the configuration error
\* is raised.
C5_NoPriorAlwaysAnError ==
    (Constructed /\ cargs.inference.name # fixed_name /\ cargs.prior.none) =>
        /\ made.status # "ok"
        /\ made.status = "Exception" => made.built = <<>>

\* C5 amended: a non-'fixed' inference with prior=None ends in the
\* configuration error when the kernel is a kernel object, raised after the
\* base GP is built and before solver, acquisition and model are resolved;
\* with a kernel name the default prior is substituted, that error is not
\* raised, and a policy that gets constructed holds the default prior.
C5_NoPriorErrorForKernelObject ==
    (Constructed /\ cargs.inference.name # fixed_name /\ cargs.prior.none) =>
        IF cargs.kernel = "object"
        THEN /\ made.status = "Exception"
             /\ made.built = <<"gp">>
             /\ self.none
        ELSE /\ made.status # "Exception"
             /\ made.status = "ok" => self.model.prior.kind = "default"

\* A construction with a kernel name, an MCMC model and no prior that went
\* through on the default prior.
C5_Witness ==
    /\ Constructed
    /\ cargs.inference.name # fixed_name /\ cargs.prior.none
    /\ cargs.kernel = "name"
    /\ made.status = "ok"
    /\ self.model.prior.kind = "default"

\* The name the constructor looks up for the model: none for 'fixed', which
\* is the base GP itself.
UnknownName ==
    \/ cargs.solver \notin DOMAIN SOLVERS
    \/ cargs.policy \notin DOMAIN POLICIES
    \/ ~is_fixed(cargs.inference) /\ cargs.inference.name \notin DOMAIN MODELS

\* C9: a solver, acquisition or inference name that its registry does not
\* hold makes the construction fail, and a policy that was constructed holds
\* the registries' entries for its names, so that no later call meets an
\* unresolved name.
C9_UnknownNamesFailAtConstruction ==
    Constructed =>
        /\ UnknownName => (made.status # "ok" /\ self.none)
        /\ ~self.none =>
              /\ cargs.solver \in DOMAIN SOLVERS
              /\ self.solver = SOLVERS[cargs.solver]
              /\ cargs.policy \in DOMAIN POLICIES
              /\ self.policy = POLICIES[cargs.policy]
              /\ is_fixed(cargs.inference) \/
                    /\ cargs.inference.name \in DOMAIN MODELS
                    /\ self.model.type = MODELS[cargs.inference.name]

\* A construction that a solver name outside SOLVERS ended with a KeyError.
C9_Witness ==
    /\ Constructed
    /\ cargs.solver \notin DOMAIN SOLVERS
    /\ made.status = "KeyError"
    /\ self.none

\* The rows of the bounds as passed.
RowsPassed ==
    IF cargs.bounds.ndim = 1 THEN << <<cargs.bounds.lower, cargs.bounds.upper>> >>
                             ELSE cargs.bounds.rows
Malformed == \E d \in 1..Len(RowsPassed) : RowsPassed[d][1] >= RowsPassed[d][2]

\* C10 as stated: bounds with lower >= upper in some dimension end the
\* construction in an error; no policy holds such bounds.  Stated for a
\* kernel object, where the constructor alone sees the bounds.
C10_MalformedBoundsRejected ==
    (Constructed /\ Malformed /\ cargs.kernel = "object") =>
        (made.status # "ok" /\ self.none)

\* C10 amended: the constructor does not check the order of the bounds.  With
\* a kernel object, names that resolve and a prior where the inference needs
\* one, bounds with lower >= upper in some dimension construct a policy that
\* holds them as passed, and get_init returns their centre lo + 0.5 * (up - lo).
C10_MalformedBoundsAccepted ==
    (/\ Constructed /\ Malformed
     /\ cargs.kernel = "object"
     /\ ~UnknownName
     /\ is_fixed(cargs.inference) \/ ~cargs.prior.none) =>
        /\ made.status = "ok"
        /\ ~self.none
        /\ self.bounds = RowsPassed
        /\ (~last.none /\ last.op = "get_init") =>
              \A d \in 1..Len(RowsPassed) :
                  last.value[1][d] = RowsPassed[d][1] + RowsPassed[d][2]

\* A policy with lower > upper in a dimension whose get_init returned.
C10_Witness ==
    /\ Constructed /\ cargs.kernel = "object"
    /\ \E d \in 1..Len(RowsPassed) : RowsPassed[d][1] > RowsPassed[d][2]
    /\ made.status = "ok"
    /\ ~last.none /\ last.op = "get_init"

\* C6: the model's data is the sequence of (x, y) pairs passed to add_data,
\* in call order, after any interleaving of add_data, get_init, get_next and
\* get_best, whether these returned or raised.
C6_DataIsObservationsInOrder == data = observed

\* Two different observations followed by a get_best that returned.
C6_Witness ==
    /\ Len(data) = 2
    /\ data[1] # data[2]
    /\ ~last.none /\ last.op = "get_best" /\ last.status = "ok"

====
